---- MODULE Spec2Model ----
(***************************************************************************)
(* Lead Gen Agent (src/app.py): a Streamlit script that fetches PubMed     *)
(* authors, simulates enrichment, scores every held lead and renders the   *)
(* leads sorted by score.                                                  *)
(*                                                                         *)
(* A Python dict is a function from keys to values, so that a key can be   *)
(* absent.  A Python str on which the script searches or concatenates      *)
(* (Title, Affiliation, Enriched_Location, Scoring Factors) is a sequence  *)
(* of one-character strings; opaque strs (Name, Company, Enriched_Funding, *)
(* keywords, uids) are TLA+ strings.                                       *)
(***************************************************************************)
EXTENDS Integers, Sequences, FiniteSets, TLC

VARIABLES
    leads_data,   \* st.session_state.leads_data: list of dicts
    cache,        \* store of @st.cache_data: keyword -> cached call
    pc,           \* position of the script: "idle", "enrich", "render"
    button,       \* the button that is True in the run in progress, or "none"
    person,       \* index of the enrichment loop (0 outside the loop)
    http,         \* requests.get exchanges of the script run in progress
    draws,        \* random.random() values of the latest loop iteration of the run
    errors,       \* st.error messages on the page
    view          \* what the processing block put on the page

vars == <<leads_data, cache, pc, button, person, http, draws, errors, view>>

(***************************************************************************)
(* Bounds of the model.                                                    *)
(***************************************************************************)
\* longest idlist the search answers with (retmax=15 in the script)
MaxIds == 2

(***************************************************************************)
(* Python str and dict operations.                                         *)
(***************************************************************************)
UpperCase == <<"A","B","C","D","E","F","G","H","I","J","K","L","M","N","O","P","Q","R","S","T","U","V","W","X","Y","Z">>
LowerCase == <<"a","b","c","d","e","f","g","h","i","j","k","l","m","n","o","p","q","r","s","t","u","v","w","x","y","z">>

\* the lower-case letter of each upper-case letter
LowerOf ==
    [c \in {UpperCase[i] : i \in 1..Len(UpperCase)} |->
        LowerCase[CHOOSE i \in 1..Len(UpperCase) : UpperCase[i] = c]]

\* str.lower(), one character
LowerChar(c) == IF c \in DOMAIN LowerOf THEN LowerOf[c] ELSE c

\* str.lower()
lower(s) == [i \in 1..Len(s) |-> LowerChar(s[i])]

\* `sub in s` for strs
Contains(s, sub) ==
    \E i \in 0..(Len(s) - Len(sub)) :
        \A j \in 1..Len(sub) : s[i + j] = sub[j]

\* sep.join(parts)
RECURSIVE join(_, _)
join(sep, parts) ==
    IF parts = <<>> THEN <<>>
    ELSE IF Len(parts) = 1 THEN parts[1]
    ELSE parts[1] \o sep \o join(sep, Tail(parts))

\* dict.get(key, default)
get(d, key, default) == IF key \in DOMAIN d THEN d[key] ELSE default

\* d[key] = value
put(d, key, value) ==
    [k \in DOMAIN d \cup {key} |-> IF k = key THEN value ELSE d[k]]

\* the default of dict.get(key); no str of the model equals it
None == "None"

(***************************************************************************)
(* calculate_propensity_score                                              *)
(***************************************************************************)
target_roles ==
    << <<"t","o","x","i","c","o","l","o","g","y">>,
       <<"s","a","f","e","t","y">>,
       <<"h","e","p","a","t","i","c">>,
       <<"3","d">>,
       <<"l","i","v","e","r">>,
       <<"v","i","t","r","o">> >>

hubs ==
    << <<"b","o","s","t","o","n">>,
       <<"c","a","m","b","r","i","d","g","e">>,
       <<"b","a","y"," ","a","r","e","a">>,
       <<"b","a","s","e","l">>,
       <<"l","o","n","d","o","n">>,
       <<"o","x","f","o","r","d">> >>

funded == {"Series A", "Series B", "Public"}

RoleFitLabel == <<"R","o","l","e"," ","F","i","t"," ","(","+","3","0",")">>
ScientificIntentLabel == <<"S","c","i","e","n","t","i","f","i","c"," ","I","n","t","e","n","t"," ","(","+","4","0",")">>
HubLocationLabel == <<"H","u","b"," ","L","o","c","a","t","i","o","n"," ","(","+","1","0",")">>
FundingLabel == <<"F","u","n","d","i","n","g"," ","(","+","2","0",")">>

\* any(keyword in text for keyword in keywords)
AnyIn(keywords, text) == \E i \in 1..Len(keywords) : Contains(text, keywords[i])

Min(a, b) == IF a < b THEN a ELSE b

\* rule 1: the lower-cased title holds one of target_roles
RoleFit(candidate) == AnyIn(target_roles, lower(candidate["Title"]))

\* candidate.get('Enriched_Location', candidate.get('Affiliation', ''))
LocationOf(candidate) ==
    get(candidate, "Enriched_Location", get(candidate, "Affiliation", <<>>))

\* rule 3: the lower-cased location holds one of hubs
HubLocation(candidate) == AnyIn(hubs, lower(LocationOf(candidate)))

FundingRecorded(candidate) ==
    get(candidate, "Enriched_Funding", None) \notin {None, ""}

\* rule 4: candidate.get('Enriched_Funding') in ['Series A', 'Series B', 'Public']
Funding(candidate) == get(candidate, "Enriched_Funding", None) \in funded

AddRuleUnlabelled(acc, fires, weight, label) ==
    IF fires
    THEN [score |-> acc.score + weight, breakdown |-> acc.breakdown]
    ELSE acc

\* if fires: score += weight; breakdown.append(label)
AddRule(acc, fires, weight, label) ==
    IF fires
    THEN [score |-> acc.score + weight, breakdown |-> Append(acc.breakdown, label)]
    ELSE acc

calculate_propensity_score(candidate) ==
    LET r0 == [score |-> 0, breakdown |-> <<>>]
        r1 == AddRule(r0, RoleFit(candidate), 30, RoleFitLabel)
        r2 == AddRule(r1, TRUE, 40, ScientificIntentLabel)
        r3 == AddRule(r2, HubLocation(candidate), 10, HubLocationLabel)
        r4 == AddRule(r3, Funding(candidate), 20, FundingLabel)
    IN  [score |-> Min(r4.score, 100), reason |-> join(<<",", " ">>, r4.breakdown)]

(***************************************************************************)
(* The PubMed service: what the two requests can answer.                   *)
(***************************************************************************)
Keywords == {"Drug-Induced Liver Injury", "organoid"}

\* the papers the service can list for a keyword
Catalog(keyword) ==
    IF keyword = "Drug-Induced Liver Injury" THEN {"1", "2", "3"} ELSE {"3"}

\* the esummary record of a paper; paper "2" has neither title nor source
Paper(uid) ==
    CASE uid = "1" ->
           [uid |-> "1",
            title |-> <<"H","e","p","a","t","i","c"," ","t","o","x","i","c","i","t","y"," ","s","t","u","d","y">>,
            source |-> "Toxicol Sci",
            authors |-> <<[name |-> "Smith J"], [name |-> "Doe A"]>>]
      [] uid = "2" ->
           [uid |-> "2",
            authors |-> <<[name |-> "Lee K"]>>]
      [] OTHER ->
           [uid |-> "3",
            title |-> <<"I","n"," ","V","i","t","r","o"," ","3","D"," ","m","o","d","e","l","s">>,
            source |-> "Arch Toxicol",
            authors |-> <<[name |-> "Garcia M"], [name |-> "Smith J"]>>]

ItemForms == {"full", "no_authors", "empty_authors", "nameless"}

\* the record as the summary answers it
Item(uid, form) ==
    LET paper == Paper(uid)
    IN  CASE form = "full" -> paper
          [] form = "no_authors" -> [k \in DOMAIN paper \ {"authors"} |-> paper[k]]
          [] form = "empty_authors" -> [paper EXCEPT !["authors"] = <<>>]
          [] OTHER -> [paper EXCEPT !["authors"] = <<[authtype |-> "Author"]>> \o Tail(@)]

Range(seq) == {seq[i] : i \in 1..Len(seq)}

\* idlists: no uid twice, at most MaxIds long
IdLists(keyword) ==
    UNION {{l \in [1..n -> Catalog(keyword)] : \A i, j \in 1..n : l[i] = l[j] => i = j} :
           n \in 0..MaxIds}

Failures == {"ConnectionError", "JSONDecodeError"}

SearchResponses(keyword) ==
    {[status |-> f] : f \in Failures}
      \cup {[status |-> "ok", json |-> [header |-> "0.3"]],
            [status |-> "ok", json |-> [esearchresult |-> [count |-> "0"]]]}
      \cup {[status |-> "ok", json |-> [esearchresult |-> [idlist |-> l]]] : l \in IdLists(keyword)}

UidDicts(id_list) ==
    UNION {{[uid \in present |-> Item(uid, form[uid])] : form \in [present -> ItemForms]} :
           present \in SUBSET Range(id_list)}

SummaryResponses(id_list) ==
    {[status |-> f] : f \in Failures}
      \cup {[status |-> "ok", json |-> [header |-> "0.3"]]}
      \cup {[status |-> "ok", json |-> [result |-> d]] : d \in UidDicts(id_list)}

(***************************************************************************)
(* fetch_pubmed_leads                                                      *)
(***************************************************************************)
\* the dict appended for one uid
NewLead(item, primary_author) ==
    [Name |-> primary_author,
     Title |-> get(item, "title", <<"N","o"," ","T","i","t","l","e">>),
     Company |-> get(item, "source", "Unknown Journal"),
     Affiliation |-> <<"C","h","e","c","k"," ","L","i","n","k","e","d","I","n">>,
     LinkedIn |-> "https://www.linkedin.com/search/results/people/?keywords=" \o primary_author,
     Enriched_Location |-> <<>>,
     Enriched_Funding |-> ""]

PrependLead(leads, lead) == <<lead>> \o leads

\* leads.append(...)
AppendLead(leads, lead) == Append(leads, lead)

\* the for loop over id_list; raised when authors[0] has no 'name'
RECURSIVE MapLeads(_, _, _)
MapLeads(id_list, uid_dict, leads) ==
    IF id_list = <<>> THEN [raised |-> FALSE, leads |-> leads]
    ELSE LET uid == Head(id_list)
         IN  IF uid \notin DOMAIN uid_dict
             THEN MapLeads(Tail(id_list), uid_dict, leads)
             ELSE LET item == uid_dict[uid]
                      authors == get(item, "authors", <<>>)
                  IN  IF authors = <<>>
                      THEN MapLeads(Tail(id_list), uid_dict, leads)
                      ELSE IF "name" \notin DOMAIN authors[1]
                      THEN [raised |-> TRUE, e |-> "KeyError"]
                      ELSE MapLeads(Tail(id_list), uid_dict,
                                    AppendLead(leads, NewLead(item, authors[1]["name"])))

SearchExchange(keyword, resp) == [url |-> "esearch", term |-> keyword, resp |-> resp]

\* the summary request carries ",".join(id_list)
SummaryExchange(id_list, resp) ==
    [url |-> "esummary", id |-> join(",", id_list), resp |-> resp]

CaughtSilently(e, exchanges) == [value |-> <<>>, errors |-> <<>>, http |-> exchanges]

\* except Exception as e: st.error(...); return []
\* (e stands for the text of the exception: its class)
Caught(e, exchanges) ==
    [value |-> <<>>,
     errors |-> <<"Error connecting to PubMed: " \o e>>,
     http |-> exchanges]

Returned(leads, exchanges) == [value |-> leads, errors |-> <<>>, http |-> exchanges]

NoIdsIgnored(id_list) == FALSE

\* if not id_list: return []
NoIds(id_list) == id_list = <<>>

\* the body of fetch_pubmed_leads, given what the two requests answer;
\* summary_resp is read only when the second request is made
fetch_pubmed_leads(keyword, search_resp, summary_resp) ==
    LET first == <<SearchExchange(keyword, search_resp)>>
    IN  IF search_resp.status # "ok" THEN Caught(search_resp.status, first)
        ELSE IF "esearchresult" \notin DOMAIN search_resp.json
        THEN Caught("KeyError", first)
        ELSE IF "idlist" \notin DOMAIN search_resp.json["esearchresult"]
        THEN Caught("KeyError", first)
        ELSE LET id_list == search_resp.json["esearchresult"]["idlist"]
                 both == Append(first, SummaryExchange(id_list, summary_resp))
             IN  IF NoIds(id_list) THEN Returned(<<>>, first)
                 ELSE IF summary_resp.status # "ok"
                 THEN Caught(summary_resp.status, both)
                 ELSE IF "result" \notin DOMAIN summary_resp.json
                 THEN Caught("KeyError", both)
                 ELSE LET mapped == MapLeads(id_list, summary_resp.json["result"], <<>>)
                      IN  IF mapped.raised THEN Caught(mapped.e, both)
                          ELSE Returned(mapped.leads, both)

\* whether the script gets as far as the second request, and with which idlist
AsksSummary(search_resp) ==
    /\ search_resp.status = "ok"
    /\ "esearchresult" \in DOMAIN search_resp.json
    /\ "idlist" \in DOMAIN search_resp.json["esearchresult"]
    /\ search_resp.json["esearchresult"]["idlist"] # <<>>

NoResponse == [status |-> "not requested"]

SummaryChoices(search_resp) ==
    IF AsksSummary(search_resp)
    THEN SummaryResponses(search_resp.json["esearchresult"]["idlist"])
    ELSE {NoResponse}

(***************************************************************************)
(* The enrichment loop.  random.random() is a value in hundredths.         *)
(***************************************************************************)
Draws == {10, 30, 50}

EnrichOneInclusive(who, rnd) ==
    IF rnd[1] <= 30
    THEN [person |-> put(put(put(who, "Enriched_Location",
                                 <<"C","a","m","b","r","i","d","g","e",","," ","M","A">>),
                             "Enriched_Funding", "Series B"),
                         "Company", "Apex Biopharma"),
          used |-> 1]
    ELSE IF rnd[2] < 50
    THEN [person |-> put(put(who, "Enriched_Location",
                             <<"B","a","s","e","l",","," ","S","w","i","t","z","e","r","l","a","n","d">>),
                         "Enriched_Funding", "Grant Funded"),
          used |-> 2]
    ELSE [person |-> who, used |-> 2]

\* one iteration for `person`; rnd holds the values the next two calls of
\* random.random() return, `used` how many of them were called
EnrichOne(who, rnd) ==
    IF rnd[1] < 30
    THEN [person |-> put(put(put(who, "Enriched_Location",
                                 <<"C","a","m","b","r","i","d","g","e",","," ","M","A">>),
                             "Enriched_Funding", "Series B"),
                         "Company", "Apex Biopharma"),
          used |-> 1]
    ELSE IF rnd[2] < 50
    THEN [person |-> put(put(who, "Enriched_Location",
                             <<"B","a","s","e","l",","," ","S","w","i","t","z","e","r","l","a","n","d">>),
                         "Enriched_Funding", "Grant Funded"),
          used |-> 2]
    ELSE [person |-> who, used |-> 2]

(***************************************************************************)
(* The processing and scoring block.                                       *)
(***************************************************************************)
\* row['Probability Score'] = score; row['Scoring Factors'] = reason
ScoredRow(row) ==
    LET r == calculate_propensity_score(row)
    IN  put(put(row, "Probability Score", r.score), "Scoring Factors", r.reason)

ScoredRows(rows) == [i \in 1..Len(rows) |-> ScoredRow(rows[i])]

RowOrders(n) == {p \in [1..n -> 1..n] : \A i, j \in 1..n : p[i] = p[j] => i = j}

\* df.sort_values(by="Probability Score", ascending=False): the row orders the
\* default kind="quicksort" can produce; it is not a stable sort, so rows of
\* equal score come in any order
SortOrders(rows) ==
    {p \in RowOrders(Len(rows)) :
        \A i, j \in 1..Len(rows) :
            i < j => rows[p[i]]["Probability Score"] >= rows[p[j]]["Probability Score"]}

HotLeadsFrom80(rows) == Cardinality({i \in 1..Len(rows) : rows[i]["Probability Score"] >= 80})

\* len(df[df['Probability Score'] > 80])
HotLeads(rows) == Cardinality({i \in 1..Len(rows) : rows[i]["Probability Score"] > 80})

Table(rows, order) ==
    [kind |-> "table",
     index |-> order,
     df |-> [i \in 1..Len(rows) |-> rows[order[i]]],
     total |-> Len(rows),
     hot_leads |-> HotLeads(rows)]

Info == [kind |-> "info"]

Blank == [kind |-> "blank"]

(***************************************************************************)
(* The script: one run per widget event, from the buttons to the table.    *)
(***************************************************************************)
Init ==
    /\ leads_data = <<>>
    /\ cache = <<>>
    /\ pc = "idle"
    /\ button = "none"
    /\ person = 0
    /\ http = <<>>
    /\ draws = <<>>
    /\ errors = <<>>
    /\ view = Info

HeldKept(old, fetched) == IF old # <<>> THEN old ELSE fetched

\* st.session_state.leads_data = fetch_pubmed_leads(search_term)
Held(old, fetched) == fetched

\* "1. Run Live Crawler" with `search_term` in the text input, not cached:
\* both requests are made and the call is stored
RunCrawlerMiss ==
    /\ pc = "idle"
    /\ \E search_term \in Keywords \ DOMAIN cache :
         \E search_resp \in SearchResponses(search_term) :
           \E summary_resp \in SummaryChoices(search_resp) :
              LET r == fetch_pubmed_leads(search_term, search_resp, summary_resp)
              IN  /\ cache' = put(cache, search_term, [value |-> r.value, errors |-> r.errors])
                  /\ leads_data' = Held(leads_data, r.value)
                  /\ errors' = r.errors
                  /\ http' = r.http
    /\ pc' = "render"
    /\ button' = "run_crawler"
    /\ view' = Blank
    /\ UNCHANGED <<person, draws>>

\* "1. Run Live Crawler", the keyword cached: st.cache_data hands out a copy
\* of the stored value and replays the stored st.error
RunCrawlerHit ==
    /\ pc = "idle"
    /\ \E search_term \in Keywords \cap DOMAIN cache :
          /\ leads_data' = Held(leads_data, cache[search_term].value)
          /\ errors' = cache[search_term].errors
    /\ pc' = "render"
    /\ button' = "run_crawler"
    /\ view' = Blank
    /\ UNCHANGED <<cache, person, http, draws>>

\* "2. Enrich Data (Simulate)": the loop is entered when leads are held
EnrichData ==
    /\ pc = "idle"
    /\ IF leads_data # <<>>
       THEN pc' = "enrich" /\ person' = 1
       ELSE pc' = "render" /\ person' = 0
    /\ button' = "enrich_data"
    /\ errors' = <<>>
    /\ view' = Blank
    /\ UNCHANGED <<leads_data, cache, http, draws>>

\* one iteration of `for person in st.session_state.leads_data`
EnrichPerson ==
    /\ pc = "enrich"
    /\ \E rnd \in [1..2 -> Draws] :
          LET r == EnrichOne(leads_data[person], rnd)
          IN  /\ leads_data' = [leads_data EXCEPT ![person] = r.person]
              /\ draws' = SubSeq(rnd, 1, r.used)
    /\ IF person < Len(leads_data)
       THEN pc' = "enrich" /\ person' = person + 1
       ELSE pc' = "render" /\ person' = 0
    /\ UNCHANGED <<cache, button, http, errors, view>>

\* a run with neither button pressed (another widget event)
Rerun ==
    /\ pc = "idle"
    /\ pc' = "render"
    /\ errors' = <<>>
    /\ view' = Blank
    /\ UNCHANGED <<leads_data, cache, button, person, http, draws>>

\* PROCESSING & SCORING, which ends the run
Render ==
    /\ pc = "render"
    /\ IF leads_data # <<>>
       THEN LET processed_data == ScoredRows(leads_data)
            IN  /\ leads_data' = processed_data
                /\ \E order \in SortOrders(processed_data) :
                      view' = Table(processed_data, order)
       ELSE /\ leads_data' = leads_data
            /\ view' = Info
    /\ pc' = "idle"
    /\ button' = "none"
    /\ http' = <<>>
    /\ draws' = <<>>
    /\ UNCHANGED <<cache, person, errors>>

Next ==
    \/ RunCrawlerMiss
    \/ RunCrawlerHit
    \/ EnrichData
    \/ EnrichPerson
    \/ Rerun
    \/ Render

Spec == Init /\ [][Next]_vars

(***************************************************************************)
(* The scorer on its own: the scoring block applied to one candidate drawn *)
(* from a set wider than what the fetch and the enrichment produce (keys   *)
(* absent, other titles, affiliations, locations and fundings).            *)
(***************************************************************************)
ProbeTitles ==
    { <<"H","e","p","a","t","i","c"," ","t","o","x","i","c","i","t","y"," ","s","t","u","d","y">>,
      <<"H","E","P","A","T","I","C">>,
      <<"D","r","u","g"," ","S","a","f","e","t","y">>,
      <<"N","o"," ","T","i","t","l","e">>,
      <<"C","a","n","c","e","r"," ","r","e","v","i","e","w">> }

ProbeAffiliations ==
    { <<"C","h","e","c","k"," ","L","i","n","k","e","d","I","n">>,
      <<"B","o","s","t","o","n"," ","U","n","i","v">> }

ProbeLocations ==
    { <<>>,
      <<"C","a","m","b","r","i","d","g","e",","," ","M","A">>,
      <<"L","O","N","D","O","N">>,
      <<"P","a","r","i","s">> }

ProbeFundings ==
    {"", "Series A", "Series B", "Public", "Grant Funded", "series a", "Series A round"}

\* a dict with the keys of `keys` that `full` has
Restrict(full, keys) == [k \in keys |-> full[k]]

Probes ==
    {Restrict([Name |-> "Probe", Title |-> t, Company |-> "Journal",
               Affiliation |-> a, Enriched_Location |-> l, Enriched_Funding |-> f],
              {"Name", "Title", "Company"} \cup optional) :
        t \in ProbeTitles, a \in ProbeAffiliations, l \in ProbeLocations,
        f \in ProbeFundings,
        optional \in SUBSET {"Affiliation", "Enriched_Location", "Enriched_Funding"}}

ScorerInit ==
    /\ leads_data \in {<<c>> : c \in Probes}
    /\ cache = <<>>
    /\ pc = "render"
    /\ button = "none"
    /\ person = 0
    /\ http = <<>>
    /\ draws = <<>>
    /\ errors = <<>>
    /\ view = Blank

ScorerNext == Render

ScorerSpec == ScorerInit /\ [][ScorerNext]_vars

(***************************************************************************)
(* Properties.                                                             *)
(***************************************************************************)
Rows == {leads_data[i] : i \in 1..Len(leads_data)}

Scored(row) == "Probability Score" \in DOMAIN row /\ "Scoring Factors" \in DOMAIN row

\* whether a label is in the breakdown of a scored row
Fired(row, label) == Contains(row["Scoring Factors"], label)

\* 1 when the condition holds, else 0
Ind(b) == IF b THEN 1 ELSE 0

\* C1: every scored candidate, whatever its title, affiliation, location and
\* funding, has a score from 40 to 100 and a non-empty breakdown that holds
\* "Scientific Intent (+40)".
C1_ScoreRange ==
    \A row \in Rows :
        Scored(row) =>
            /\ row["Probability Score"] \in 40..100
            /\ row["Scoring Factors"] # <<>>
            /\ Fired(row, ScientificIntentLabel)

\* a candidate with no optional key, scored at the floor of 40
C1_Witness ==
    /\ pc = "idle"
    /\ \E row \in Rows :
          /\ Scored(row)
          /\ DOMAIN row \cap {"Affiliation", "Enriched_Location", "Enriched_Funding"} = {}
          /\ row["Probability Score"] = 40

\* the title rule as the specification words it
TitleMatches(row) ==
    \E k \in {target_roles[i] : i \in 1..Len(target_roles)} :
        Contains(lower(row["Title"]), k)

\* the funding rule as the specification words it: an exact, case-sensitive match
FundingMatches(row) ==
    /\ "Enriched_Funding" \in DOMAIN row
    /\ \/ row["Enriched_Funding"] = "Series A"
       \/ row["Enriched_Funding"] = "Series B"
       \/ row["Enriched_Funding"] = "Public"

\* the labels of the rules that fired, in the order Role Fit, Scientific
\* Intent, Hub Location, Funding
LabelsInOrder(role, hub, funding) ==
    (IF role THEN <<RoleFitLabel>> ELSE <<>>)
      \o <<ScientificIntentLabel>>
      \o (IF hub THEN <<HubLocationLabel>> ELSE <<>>)
      \o (IF funding THEN <<FundingLabel>> ELSE <<>>)

\* C2: the score is min(100, 30*[role fit] + 40 + 10*[hub] + 20*[funding]),
\* the rules fire independently, role fit on the lower-cased title and funding
\* on an exact match, and the breakdown is the ", "-joined labels of the fired
\* rules in the fixed order; role fit alone gives 70, funding alone 60, all
\* four 100.
C2_WeightedSum ==
    \A row \in Rows :
        Scored(row) =>
            LET role == Fired(row, RoleFitLabel)
                hub == Fired(row, HubLocationLabel)
                funding == Fired(row, FundingLabel)
                sum == 30 * Ind(role) + 40 + 10 * Ind(hub) + 20 * Ind(funding)
            IN  /\ row["Probability Score"] = (IF sum < 100 THEN sum ELSE 100)
                /\ row["Scoring Factors"] = join(<<",", " ">>, LabelsInOrder(role, hub, funding))
                /\ role <=> TitleMatches(row)
                /\ funding <=> FundingMatches(row)
                /\ (role /\ ~hub /\ ~funding) => row["Probability Score"] = 70
                /\ (~role /\ ~hub /\ funding) => row["Probability Score"] = 60
                /\ (role /\ hub /\ funding) => row["Probability Score"] = 100

\* funding alone fires: 60, "Scientific Intent (+40), Funding (+20)"
C2_Witness ==
    /\ pc = "idle"
    /\ \E row \in Rows :
          /\ Scored(row)
          /\ get(row, "Enriched_Funding", None) = "Series A"
          /\ row["Probability Score"] = 60
          /\ row["Scoring Factors"] = join(<<",", " ">>, <<ScientificIntentLabel, FundingLabel>>)

\* the location the specification words: enrichedLocation when it is non-empty,
\* otherwise the affiliation
PreferredLocation(row) ==
    IF "Enriched_Location" \in DOMAIN row /\ row["Enriched_Location"] # <<>>
    THEN row["Enriched_Location"]
    ELSE IF "Affiliation" \in DOMAIN row THEN row["Affiliation"] ELSE <<>>

\* C8: the hub rule fires exactly when the lower-cased enrichedLocation, or the
\* lower-cased affiliation when enrichedLocation is empty or absent, holds one
\* of the hub names.
C8_HubFallsBackToAffiliation ==
    \A row \in Rows :
        Scored(row) =>
            (Fired(row, HubLocationLabel) <=>
                \E h \in {hubs[i] : i \in 1..Len(hubs)} :
                    Contains(lower(PreferredLocation(row)), h))

\* what the search of the run in progress answered
SearchAnswer == http[1].resp

SearchGaveIds ==
    /\ SearchAnswer.status = "ok"
    /\ "esearchresult" \in DOMAIN SearchAnswer.json
    /\ "idlist" \in DOMAIN SearchAnswer.json["esearchresult"]

AnsweredIds == SearchAnswer.json["esearchresult"]["idlist"]

SummaryGaveResult ==
    /\ Len(http) = 2
    /\ http[2].resp.status = "ok"
    /\ "result" \in DOMAIN http[2].resp.json

AnsweredResult == http[2].resp.json["result"]

\* the uid is in the summary and lists at least one author
HasAuthors(uid) ==
    /\ uid \in DOMAIN AnsweredResult
    /\ "authors" \in DOMAIN AnsweredResult[uid]
    /\ AnsweredResult[uid]["authors"] # <<>>

\* one of the failures of a fetch: a request or its decoding failed, a key of
\* the answers is missing, or a first author has no name
FetchFailed ==
    \/ ~SearchGaveIds
    \/ /\ AnsweredIds # <<>>
       /\ \/ ~SummaryGaveResult
          \/ \E i \in 1..Len(AnsweredIds) :
                /\ HasAuthors(AnsweredIds[i])
                /\ "name" \notin DOMAIN AnsweredResult[AnsweredIds[i]]["authors"][1]

\* C3: a failed fetch (a failed request or decoding, a missing key, a first
\* author without a name) is not propagated: the held list is empty, not a part
\* of the candidates mapped so far, an error is on the page, and the run goes
\* on to the render, which ends with the info message and an empty list.
C3_FailSoft ==
    /\ (pc = "render" /\ http # <<>> /\ FetchFailed) =>
          /\ leads_data = <<>>
          /\ errors # <<>>
          /\ ENABLED Render
    /\ (pc = "idle" /\ errors # <<>>) =>
          /\ leads_data = <<>>
          /\ view = Info

\* the first uid was mapped to a candidate before a later first author had no name
C3_Witness ==
    /\ pc = "render"
    /\ Len(http) = 2
    /\ SearchGaveIds
    /\ SummaryGaveResult
    /\ Len(AnsweredIds) >= 2
    /\ HasAuthors(AnsweredIds[1])
    /\ "name" \in DOMAIN AnsweredResult[AnsweredIds[1]]["authors"][1]
    /\ HasAuthors(AnsweredIds[2])
    /\ "name" \notin DOMAIN AnsweredResult[AnsweredIds[2]]["authors"][1]
    /\ leads_data = <<>>

\* the uids of the idlist that are in the summary with authors, in idlist order
KeptIds == SelectSeq(AnsweredIds, HasAuthors)

\* C4: after a fetch whose two requests succeeded, the held list is, in the
\* order of the idlist, one candidate for each uid that the summary holds with
\* a non-empty authors list, named after the first author of that uid; other
\* uids give no candidate.
C4_Subsequence ==
    (pc = "render" /\ http # <<>> /\ ~FetchFailed /\ AnsweredIds # <<>>) =>
        /\ Len(leads_data) = Len(KeptIds)
        /\ \A i \in 1..Len(KeptIds) :
              leads_data[i]["Name"] = AnsweredResult[KeptIds[i]]["authors"][1]["name"]

\* idlist "3", "1", both with authors: Garcia M before Smith J
C4_Witness ==
    /\ pc = "render"
    /\ http # <<>>
    /\ ~FetchFailed
    /\ AnsweredIds = <<"3", "1">>
    /\ Len(leads_data) = 2
    /\ leads_data[1]["Name"] = "Garcia M"
    /\ leads_data[2]["Name"] = "Smith J"

\* the venues the service reports, and the default
Venues ==
    {get(Paper(uid), "source", "Unknown Journal") :
        uid \in UNION {Catalog(k) : k \in Keywords}}

\* C5: after the fetch handler, cached or not, the held list is the fetched
\* list and nothing of the list held before: every candidate has an empty
\* enrichedLocation and enrichedFunding, the venue of the source as company,
\* and no score.
C5_FetchReplaces ==
    (pc = "render" /\ button = "run_crawler") =>
        /\ \E k \in DOMAIN cache : leads_data = cache[k].value
        /\ \A row \in Rows :
              /\ row["Enriched_Location"] = <<>>
              /\ row["Enriched_Funding"] = ""
              /\ row["Company"] \in Venues
              /\ ~Scored(row)
        /\ (http # <<>> /\ ~FetchFailed /\ AnsweredIds # <<>>) =>
              \A i \in 1..Len(leads_data) :
                  i <= Len(KeptIds) =>
                      leads_data[i]["Company"]
                          = get(AnsweredResult[KeptIds[i]], "source", "Unknown Journal")

\* a fetch answered from the cache, both keywords fetched before
C5_Witness ==
    /\ pc = "render"
    /\ button = "run_crawler"
    /\ http = <<>>
    /\ DOMAIN cache = Keywords
    /\ Len(leads_data) = 2

CambridgeMA == <<"C","a","m","b","r","i","d","g","e",","," ","M","A">>

BaselSwitzerland == <<"B","a","s","e","l",","," ","S","w","i","t","z","e","r","l","a","n","d">>

\* the outcome of one iteration for the draws it made: d[1] is the first draw,
\* d[2] the second, made only when the first is not below 0.3
EnrichOutcome(d, before, after) ==
    IF d[1] < 30
    THEN /\ Len(d) = 1
         /\ after = [before EXCEPT !["Enriched_Location"] = CambridgeMA,
                                   !["Enriched_Funding"] = "Series B",
                                   !["Company"] = "Apex Biopharma"]
    ELSE IF Len(d) = 2 /\ d[2] < 50
    THEN /\ after = [before EXCEPT !["Enriched_Location"] = BaselSwitzerland,
                                   !["Enriched_Funding"] = "Grant Funded"]
    ELSE /\ Len(d) = 2
         /\ after = before

\* C6: the enrich handler does nothing to an empty list; otherwise each held
\* candidate gets the Cambridge / Series B / Apex Biopharma profile when its
\* first draw is below 0.3 (so always when the draw is 0.1), the Basel / Grant
\* Funded profile with its company kept when the first draw is at least 0.3 and
\* a second draw is below 0.5, and is left as it was otherwise; the length and
\* order of the list and the other candidates are untouched.
C6_Enrich ==
    [][ /\ (pc = "idle" /\ button' = "enrich_data") =>
              /\ leads_data' = leads_data
              /\ (leads_data = <<>>) => (pc' = "render")
              /\ (leads_data # <<>>) => (pc' = "enrich" /\ person' = 1)
        /\ (pc = "enrich") =>
              /\ Len(leads_data') = Len(leads_data)
              /\ \A i \in 1..Len(leads_data) :
                    IF i = person
                    THEN EnrichOutcome(draws', leads_data[i], leads_data'[i])
                    ELSE leads_data'[i] = leads_data[i]
              /\ (draws'[1] = 10) =>
                    /\ leads_data'[person]["Enriched_Funding"] = "Series B"
                    /\ leads_data'[person]["Company"] = "Apex Biopharma"
              /\ IF person < Len(leads_data)
                 THEN pc' = "enrich" /\ person' = person + 1
                 ELSE pc' = "render"
      ]_vars

\* the loop is over: the first candidate got the Cambridge profile, the last
\* one the Basel profile on draws 0.3 and 0.3
C6_Witness ==
    /\ pc = "render"
    /\ button = "enrich_data"
    /\ draws = <<30, 30>>
    /\ Len(leads_data) = 2
    /\ leads_data[1]["Enriched_Funding"] = "Series B"
    /\ leads_data[1]["Company"] = "Apex Biopharma"
    /\ leads_data[2]["Enriched_Location"] = BaselSwitzerland
    /\ leads_data[2]["Company"] # "Apex Biopharma"

\* C7: the rendered list is a permutation of the held list in descending order
\* of score, and candidates of equal score keep their order in the held list.
C7_StableSort ==
    (pc = "idle" /\ view.kind = "table") =>
        /\ Len(view.df) = Len(leads_data)
        /\ {view.index[i] : i \in 1..Len(view.index)} = 1..Len(leads_data)
        /\ \A i \in 1..Len(view.df) : view.df[i] = leads_data[view.index[i]]
        /\ \A i, j \in 1..Len(view.df) :
              i < j =>
                 /\ view.df[i]["Probability Score"] >= view.df[j]["Probability Score"]
                 /\ (view.df[i]["Probability Score"] = view.df[j]["Probability Score"])
                       => view.index[i] < view.index[j]

\* C9: the summary request is made only after a search that answered a
\* non-empty idlist; when the idlist is empty the fetch makes the search
\* request alone and gives the empty list, without an error.
C9_NoSummaryOnEmptyIds ==
    /\ \A k \in 1..Len(http) :
          (http[k].url = "esummary") =>
              /\ k = 2
              /\ http[1].url = "esearch"
              /\ SearchGaveIds
              /\ AnsweredIds # <<>>
    /\ (http # <<>> /\ SearchGaveIds /\ AnsweredIds = <<>>) =>
          /\ Len(http) = 1
          /\ http[1].url = "esearch"
          /\ leads_data = <<>>
          /\ errors = <<>>

\* a fetch whose search answered an empty idlist
C9_Witness ==
    /\ pc = "render"
    /\ button = "run_crawler"
    /\ Len(http) = 1
    /\ SearchGaveIds
    /\ AnsweredIds = <<>>

Profiles ==
    { <<<<>>, "">>, <<CambridgeMA, "Series B">>, <<BaselSwitzerland, "Grant Funded">> }

\* C10: every held candidate has one of the three location/funding profiles and
\* Series B comes with the company Apex Biopharma; in a rendered table the
\* funding rule fires only with the hub rule, every score is 40, 50, 70, 80 or
\* 100, and the hot leads (score above 80) are the candidates whose title
\* matches and whose profile is the Cambridge one.
C10_Profiles ==
    /\ \A row \in Rows :
          /\ <<row["Enriched_Location"], row["Enriched_Funding"]>> \in Profiles
          /\ (row["Enriched_Funding"] = "Series B") => (row["Company"] = "Apex Biopharma")
    /\ (pc = "idle" /\ view.kind = "table") =>
          /\ \A i \in 1..Len(view.df) :
                LET row == view.df[i]
                IN  /\ Fired(row, FundingLabel) => Fired(row, HubLocationLabel)
                    /\ row["Probability Score"] \in {40, 50, 70, 80, 100}
                    /\ (row["Probability Score"] > 80) <=>
                          (TitleMatches(row) /\ row["Enriched_Location"] = CambridgeMA)
          /\ view.hot_leads =
                Cardinality({i \in 1..Len(leads_data) :
                                /\ TitleMatches(leads_data[i])
                                /\ leads_data[i]["Enriched_Location"] = CambridgeMA})

\* a table with a hot lead and a candidate at 80
C10_Witness ==
    /\ pc = "idle"
    /\ view.kind = "table"
    /\ view.hot_leads = 1
    /\ \E i \in 1..Len(view.df) : view.df[i]["Probability Score"] = 80

====
